---- MODULE Spec2Model ----
(***************************************************************************)
(* aws-cred-proc: an AWS CLI credential_process that caches assume-role    *)
(* credentials in ~/.aws/cli/cache in the AWS CLI's own cache format.      *)
(*                                                                         *)
(* Text is modelled as a sequence of chunks.  Every character that the     *)
(* program's string handling looks at (the double quote, the colon, the    *)
(* comma, the backslash, the space, the braces) is a chunk of its own;     *)
(* a run of other characters may be one chunk.                             *)
(*                                                                         *)
(* An instant is a number of ticks; TicksPerSecond ticks make a second.    *)
(* A time.Time is [t |-> instant, off |-> zone offset in seconds].         *)
(***************************************************************************)
EXTENDS Integers, Sequences, FiniteSets, TLC

VARIABLES
    now,        \* the wall clock, in ticks
    dir,        \* the cache directory ~/.aws/cli/cache: "absent", "dir", "file"
    files,      \* cache key -> Absent or the file <cachekey>.json
    procs,      \* the processes that may be started
    pc,         \* process -> position in main / CLICache.Load
    flags,      \* process -> the flags noCache, forceRefresh and profile
    creds,      \* process -> the creds variable of Load / main
    err,        \* process -> the err variable of Load / main
    getErr,     \* process -> how c.get() ended in Load
    provided,   \* process -> what c.provider.Retrieve returned
    saveErr,    \* process -> what c.save returned
    calls,      \* process -> [retrieve, save, read, write] counts of this run
    stdout,     \* process -> what main printed
    exit,       \* process -> how the process ended
    saved,      \* the last save that succeeded: its key and the creds given to it
    keyIn,      \* input of the cache key derivation
    keyOut,     \* its result
    otherKey,   \* a second cache key: [in, out], input and result
    timeIn,     \* input of the ExpireTime round trip
    timeText,   \* the marshalled ExpireTime
    timeOut,    \* the unmarshalled ExpireTime
    history     \* process -> the files when its invocation began, and whether
                \* its previous invocation was a forced refresh that upstream failed

vars == <<now, dir, files, procs, pc, flags, creds, err, getErr, provided, saveErr,
          calls, stdout, exit, saved, keyIn, keyOut, otherKey, timeIn, timeText, timeOut,
          history>>

machineVars == <<now, dir, files, procs, pc, flags, creds, err, getErr, provided, saveErr,
                 calls, stdout, exit, saved>>
keyVars == <<keyIn, keyOut, otherKey>>
timeVars == <<timeIn, timeText, timeOut>>
histVars == <<history>>

-----------------------------------------------------------------------------
(* Bounds *)

MaxStrLen == 2
MaxTime == 3
MaxInstant == 19
TicksPerSecond == 2
MaxZone == 1

-----------------------------------------------------------------------------
(* Text *)

Q == "\""
BS == "\\"
None == "none"

Alphabet == {"a", ":", ",", " ", Q}

Strs(n) == UNION {[1..k -> Alphabet] : k \in 0..n}

HasPrefix(s, p) == Len(s) >= Len(p) /\ SubSeq(s, 1, Len(p)) = p

Drop(s, n) == SubSeq(s, n + 1, Len(s))

(* strings.Replace(s, old, new, -1): the non-overlapping occurrences of    *)
(* old, found left to right, are replaced by new.                           *)
RECURSIVE Replace(_, _, _)
Replace(s, old, new) ==
    IF s = <<>> THEN <<>>
    ELSE IF HasPrefix(s, old) THEN new \o Replace(Drop(s, Len(old)), old, new)
    ELSE <<Head(s)>> \o Replace(Tail(s), old, new)

(* strings.Trim(s, `"`): leading and trailing double quotes are removed.    *)
RECURSIVE TrimLeft(_)
TrimLeft(s) == IF s # <<>> /\ Head(s) = Q THEN TrimLeft(Tail(s)) ELSE s

RECURSIVE TrimRight(_)
TrimRight(s) ==
    IF s # <<>> /\ s[Len(s)] = Q THEN TrimRight(SubSeq(s, 1, Len(s) - 1)) ELSE s

Trim(s) == TrimRight(TrimLeft(s))

(* encoding/json on a string: quoted, with the quote and the backslash      *)
(* escaped by a backslash.                                                  *)
EscapeChunk(c) == IF c = Q THEN <<BS, Q>> ELSE IF c = BS THEN <<BS, BS>> ELSE <<c>>

RECURSIVE Escape(_)
Escape(s) == IF s = <<>> THEN <<>> ELSE EscapeChunk(Head(s)) \o Escape(Tail(s))

encodeString(s) == <<Q>> \o Escape(s) \o <<Q>>

-----------------------------------------------------------------------------
(* Cache key derivation *)

(* The computableCacheKey struct: the fields in declaration order, each     *)
(* with its json encoding; omitempty leaves out a zero int and an empty     *)
(* string.                                                                   *)
computableCacheKey(v) ==
    SelectSeq(
        << [name |-> "DurationSeconds", empty |-> v.DurationSeconds = 0,
            value |-> <<ToString(v.DurationSeconds)>>],
           [name |-> "ExternalId", empty |-> v.ExternalId = <<>>,
            value |-> encodeString(v.ExternalId)],
           [name |-> "RoleArn", empty |-> v.RoleArn = <<>>,
            value |-> encodeString(v.RoleArn)],
           [name |-> "SerialNumber", empty |-> v.SerialNumber = <<>>,
            value |-> encodeString(v.SerialNumber)] >>,
        LAMBDA f : ~f.empty)

RECURSIVE JoinFields(_, _, _)
JoinFields(fs, colon, comma) ==
    IF fs = <<>> THEN <<>>
    ELSE <<Q, Head(fs).name, Q>> \o colon \o Head(fs).value
         \o (IF Tail(fs) = <<>> THEN <<>> ELSE comma \o JoinFields(Tail(fs), colon, comma))

(* json.Marshal(v): the compact object.                                     *)
MarshalKey(v) == <<"{">> \o JoinFields(computableCacheKey(v), <<":">>, <<",">>) \o <<"}">>

(* blobStr after the two strings.Replace calls: the text that is hashed.    *)
HashInput(v) ==
    Replace(Replace(MarshalKey(v), <<Q, ":">>, <<Q, ":", " ">>),
            <<",", Q>>, <<",", " ", Q>>)

(* SHA-1 in lower-case hex, kept symbolic: the digest of a text is the      *)
(* text under a tag, so two digests are equal iff the texts are.            *)
Sha1Hex(text) == <<"sha1">> \o text

String(v) == Sha1Hex(HashInput(v))

NewCacheDropsForce(forceRefresh, opts) ==
    [forceRefresh |-> FALSE,
     cacheKey |-> [DurationSeconds |-> opts.Duration,
                   ExternalId |-> opts.ExternalID,
                   RoleArn |-> opts.RoleARN,
                   SerialNumber |-> opts.SerialNumber]]

(* NewCache: the cache key fields taken from the assume-role options.       *)
NewCache(forceRefresh, opts) ==
    [forceRefresh |-> forceRefresh,
     cacheKey |-> [DurationSeconds |-> opts.Duration,
                   ExternalId |-> opts.ExternalID,
                   RoleArn |-> opts.RoleARN,
                   SerialNumber |-> opts.SerialNumber]]

-----------------------------------------------------------------------------
(* ExpireTime *)

Zones == 0..MaxZone

UTC == 0

(* A timestamp text "2006-01-02T15:04:05" is the chunk naming the whole     *)
(* second it reads, counted from the model's epoch.                         *)
WallSeconds == (0 - MaxZone - 1)..((MaxTime + MaxInstant) \div TicksPerSecond + MaxZone + 1)

(* time.Time.Format("2006-01-02T15:04:05+00:00"): the date and the clock    *)
(* reading of t in t's own location, whole seconds only, followed by the    *)
(* layout's literal text +00:00.                                            *)
Format(t) == <<ToString((t.t + t.off * TicksPerSecond) \div TicksPerSecond), "+00:00">>

(* time.Parse("2006-01-02T15:04:05+00:00", v): v must be a timestamp        *)
(* followed by the literal +00:00; the result is that clock reading in UTC. *)
Parse(v) ==
    IF Len(v) = 2 /\ v[2] = "+00:00" /\ \E w \in WallSeconds : ToString(w) = v[1]
    THEN [err |-> FALSE,
          time |-> [t |-> (CHOOSE w \in WallSeconds : ToString(w) = v[1]) * TicksPerSecond,
                    off |-> UTC]]
    ELSE [err |-> TRUE, time |-> [t |-> 0, off |-> UTC]]

MarshalJSON(e) == <<Q>> \o Format(e) \o <<Q>>

UnmarshalJSON(data) == Parse(Trim(data))

(* time.Time{}: long before every instant of the model.                     *)
ZeroTime == [t |-> 0 - 1, off |-> UTC]

-----------------------------------------------------------------------------
(* The cache file *)

(* The content of a cache file, as encoding/json sees it:                   *)
(*   invalid    not a JSON document (empty, truncated, any other text)      *)
(*   null       the JSON null                                               *)
(*   nowrapper  a JSON object without a Credentials object                  *)
(*   item       {"Credentials": {...}}; Expiration is the text of that      *)
(*              field's value, <<>> when the field is missing               *)
Doc(kind, ak, sk, st, exp) ==
    [kind |-> kind, AccessKeyId |-> ak, SecretAccessKey |-> sk, SessionToken |-> st,
     Expiration |-> exp]

InvalidDoc == Doc("invalid", "", "", "", <<>>)
NullDoc == Doc("null", "", "", "", <<>>)
NoWrapperDoc == Doc("nowrapper", "", "", "", <<>>)

(* The length in bytes of a cache file's content: nothing for the empty    *)
(* file, and for an item the length of what json.Marshal writes, which is   *)
(* the three strings and the timestamp (a date and time of 19 characters    *)
(* and the zone, in quotes) inside the text of the field names and braces.  *)
Size(data) ==
    IF data.kind = "invalid" THEN 0
    ELSE IF data.kind = "null" THEN 4
    ELSE IF data.kind = "nowrapper" THEN 2
    ELSE 73 + Len(data.AccessKeyId) + Len(data.SecretAccessKey) + Len(data.SessionToken)
         + (IF data.Expiration = <<>> THEN 0 ELSE 14 + 1 + 19 + Len(data.Expiration[3]) + 1)

File(data, readable, writable) ==
    [exists |-> TRUE, readable |-> readable, writable |-> writable, data |-> data,
     size |-> Size(data)]

Absent ==
    [exists |-> FALSE, readable |-> FALSE, writable |-> FALSE, data |-> InvalidDoc, size |-> 0]

(* The content of a file of old.size bytes after data is written at its     *)
(* start: data alone when it covers the old content, else data followed by  *)
(* what is left of the old content, which is no JSON document.              *)
writeAtStart(old, data) ==
    IF old.size <= Size(data) THEN [old EXCEPT !.data = data, !.size = Size(data)]
    ELSE [old EXCEPT !.data = Doc("invalid", data.AccessKeyId, data.SecretAccessKey,
                                  data.SessionToken, data.Expiration)]

(* aws.Credentials *)
Credentials(ak, sk, st, expires, canExpire) ==
    [AccessKeyID |-> ak, SecretAccessKey |-> sk, SessionToken |-> st,
     Expires |-> expires, CanExpire |-> canExpire]

NoCredentials == Credentials("", "", "", ZeroTime, FALSE)

ExpiredInverted(c, clock) == c.CanExpire /\ c.Expires.t > clock

ExpiredBeforeOnly(c, clock) == c.CanExpire /\ c.Expires.t < clock

(* aws.Credentials.Expired(): expired unless Expires is after the clock.    *)
Expired(c, clock) == c.CanExpire /\ ~(c.Expires.t > clock)

(* json.Marshal(item) in save.                                              *)
MarshalItem(c) ==
    Doc("item", c.AccessKeyID, c.SecretAccessKey, c.SessionToken, MarshalJSON(c.Expires))

(* json.Unmarshal(data, &v) in get: v.Credentials stays nil unless the      *)
(* document has a Credentials object; a field that is missing stays zero.   *)
UnmarshalItem(data) ==
    LET e == IF data.Expiration = <<>> THEN [err |-> FALSE, time |-> ZeroTime]
             ELSE UnmarshalJSON(data.Expiration)
    IN  [err |-> data.kind = "invalid" \/ (data.kind = "item" /\ e.err),
         nil |-> data.kind # "item",
         AccessKeyId |-> data.AccessKeyId,
         SecretAccessKey |-> data.SecretAccessKey,
         SessionToken |-> data.SessionToken,
         Expiration |-> e.time]

ErrNotExist == "cache file does not exist"
ErrRead == "failed to read cache file"
ErrDecode == "failed to decode cache json"
ErrMkdir == "failed to make directories"
ErrWrite == "failed to write cache file"
Panic == "panic: nil pointer dereference"

(* os.Stat(path) succeeds.                                                  *)
pathExists(f) == f.exists

(* CLICache.get on the cache file f.                                        *)
get(f) ==
    LET zero == Credentials("", "", "", ZeroTime, TRUE)
        v == UnmarshalItem(f.data)
    IN  IF ~pathExists(f) THEN [creds |-> zero, err |-> ErrNotExist]
        ELSE IF ~f.readable THEN [creds |-> zero, err |-> ErrRead]
        ELSE IF v.err THEN [creds |-> zero, err |-> ErrDecode]
        ELSE IF v.nil THEN [creds |-> zero, err |-> Panic]
        ELSE [creds |-> Credentials(v.AccessKeyId, v.SecretAccessKey, v.SessionToken,
                                    v.Expiration, TRUE),
              err |-> None]

-----------------------------------------------------------------------------
(* The processes *)

(* The assume-role options of the profiles in use.                          *)
RoleTest == <<"arn", ":", "aws", ":", "iam", ":", ":", "123456789012", ":", "role/test">>
SerialTest == <<"arn", ":", "aws", ":", "iam", ":", ":", "123456789012", ":", "mfa/test">>

Profiles == {"cp-role", "cp-role-mfa"}

(* opts, as config.LoadDefaultConfig fills it for the profile.              *)
AssumeRoleOptions(profile) ==
    [Duration |-> 3600, ExternalID |-> <<>>, RoleARN |-> RoleTest,
     SerialNumber |-> IF profile = "cp-role-mfa" THEN SerialTest ELSE <<>>]

(* CLICache.path: the cache file is named by the cache key; one file per key. *)
PathTable == [f \in Profiles |-> String(NewCache(FALSE, AssumeRoleOptions(f)).cacheKey)]

path(profile) == PathTable[profile]

Paths == {path(f) : f \in Profiles}

(* What the upstream provider can return: credentials that expire at any   *)
(* instant, given in UTC or in a zone one second east of it, and            *)
(* credentials with a longer session token.                                 *)
UpstreamCredentials ==
    { Credentials(id[1], id[2], id[3], [t |-> t, off |-> z], TRUE) :
        id \in {<<"AKIA1", "secret1", "token1">>},
        t \in 0..MaxTime, z \in {UTC, UTC + 1} }
    \cup { Credentials("AKIA2", "secret2", "token2-longer", [t |-> MaxTime, off |-> UTC], TRUE) }

UpstreamErrors == {"AccessDenied", "mfa: no tty"}

(* The cache files that may lie on disk before the first run.               *)
InitialFiles ==
    { Absent,
      File(InvalidDoc, TRUE, TRUE),
      File(NullDoc, TRUE, TRUE),
      File(NoWrapperDoc, TRUE, TRUE),
      File(Doc("item", "AKIA0", "secret0", "token0", <<>>), TRUE, TRUE),
      File(Doc("item", "AKIA0", "secret0", "token0", <<Q, "1", "Z", Q>>), TRUE, TRUE),
      File(Doc("item", "AKIA0", "secret0", "token0", <<Q, "1", "+00:00", Q>>), TRUE, TRUE),
      File(Doc("item", "AKIA0", "secret0", "token0", <<Q, "1", "+00:00", Q>>), FALSE, TRUE),
      File(Doc("item", "AKIA0", "secret0", "token0", <<Q, "1", "+00:00", Q>>), TRUE, FALSE) }

NoCalls == [retrieve |-> 0, save |-> 0, read |-> 0, write |-> 0]

(* main, lines 359-365: the loader is the provider's Retrieve under        *)
(* -no-cache, else the Load of a new cache.                                 *)
loaderUsesCacheAlways(noCache) == "Load"

loader(noCache) == IF noCache THEN "Retrieve" ELSE "Load"


NoFlags == [noCache |-> FALSE, forceRefresh |-> FALSE, profile |-> "cp-role"]

NotProvided == [called |-> FALSE, creds |-> NoCredentials, err |-> None]

NotCalled == "not called"

NoSave == [valid |-> FALSE, path |-> <<>>, creds |-> NoCredentials]

InitMachine(ps) ==
    /\ now = 0
    /\ dir \in {"absent", "dir", "file"}
    /\ files \in [Paths -> InitialFiles]
    /\ \E k \in Paths : \A j \in Paths \ {k} : files[j] = Absent
    /\ dir # "dir" => \A k \in Paths : files[k] = Absent
    /\ procs = ps
    /\ pc = [p \in ps |-> "idle"]
    /\ flags = [p \in ps |-> NoFlags]
    /\ creds = [p \in ps |-> NoCredentials]
    /\ err = [p \in ps |-> None]
    /\ getErr = [p \in ps |-> None]
    /\ provided = [p \in ps |-> NotProvided]
    /\ saveErr = [p \in ps |-> NotCalled]
    /\ calls = [p \in ps |-> NoCalls]
    /\ stdout = [p \in ps |-> NoCredentials]
    /\ exit = [p \in ps |-> "running"]
    /\ saved = NoSave

NoKey == [done |-> FALSE, blobStr |-> <<>>, key |-> <<>>]

NoTime == [done |-> FALSE, err |-> FALSE, time |-> ZeroTime]

NoOtherKey == [in |-> NewCache(FALSE, AssumeRoleOptions("cp-role")).cacheKey, out |-> NoKey]

IdleKey ==
    /\ keyIn = NewCache(FALSE, AssumeRoleOptions("cp-role")).cacheKey
    /\ keyOut = NoKey
    /\ otherKey = NoOtherKey

IdleTime == timeIn = ZeroTime /\ timeText = <<>> /\ timeOut = NoTime

NoPrevious == [failedRefresh |-> FALSE, profile |-> "", files |-> <<>>]

NoHistory == [files |-> <<>>, previous |-> NoPrevious]

IdleHistory == history = [p \in procs |-> NoHistory]

Init == InitMachine({"p1"}) /\ IdleKey /\ IdleTime /\ IdleHistory

(* main up to the call of the loader, and the forceRefresh test of Load:    *)
(* with -no-cache the loader is the provider's Retrieve, else it is Load of *)
(* a new cache, which reads the cache file unless a refresh is forced.      *)
Start(p, noCache, forceRefresh, profile) ==
    /\ pc[p] \in {"idle", "exited"}
    /\ flags' = [flags EXCEPT ![p] = [noCache |-> noCache, forceRefresh |-> forceRefresh,
                                      profile |-> profile]]
    /\ pc' = [pc EXCEPT ![p] = IF loader(noCache) = "Retrieve"
                                  \/ NewCache(forceRefresh, AssumeRoleOptions(profile))
                                         .forceRefresh
                               THEN "retrieve" ELSE "get"]
    /\ creds' = [creds EXCEPT ![p] = NoCredentials]
    /\ err' = [err EXCEPT ![p] = None]
    /\ getErr' = [getErr EXCEPT ![p] = None]
    /\ provided' = [provided EXCEPT ![p] = NotProvided]
    /\ saveErr' = [saveErr EXCEPT ![p] = NotCalled]
    /\ calls' = [calls EXCEPT ![p] = NoCalls]
    /\ stdout' = [stdout EXCEPT ![p] = NoCredentials]
    /\ exit' = [exit EXCEPT ![p] = "running"]
    /\ UNCHANGED <<now, dir, files, procs, saved>>

GetReturnsError(p) ==
    /\ pc[p] = "get"
    /\ LET r == get(files[path(flags[p].profile)])
           hit == r.err = None /\ ~Expired(r.creds, now)
       IN  /\ getErr' = [getErr EXCEPT ![p] = IF r.err = None /\ ~hit THEN "expired" ELSE r.err]
           /\ calls' = [calls EXCEPT ![p].read = 1]
           /\ creds' = [creds EXCEPT ![p] = IF hit THEN r.creds ELSE @]
           /\ err' = [err EXCEPT ![p] = IF r.err # None THEN r.err ELSE @]
           /\ pc' = [pc EXCEPT ![p] = IF r.err = Panic THEN "exited"
                                      ELSE IF hit \/ r.err # None THEN "main" ELSE "retrieve"]
           /\ exit' = [exit EXCEPT ![p] = IF r.err = Panic THEN "panic" ELSE @]
    /\ UNCHANGED <<now, dir, files, procs, flags, provided, saveErr, stdout, saved>>

GetEvictsExpired(p) ==
    /\ pc[p] = "get"
    /\ LET k == path(flags[p].profile)
           r == get(files[k])
           hit == r.err = None /\ ~Expired(r.creds, now)
       IN  /\ getErr' = [getErr EXCEPT ![p] = IF r.err = None /\ ~hit THEN "expired" ELSE r.err]
           /\ calls' = [calls EXCEPT ![p].read = 1]
           /\ creds' = [creds EXCEPT ![p] = IF hit THEN r.creds ELSE @]
           /\ pc' = [pc EXCEPT ![p] = IF r.err = Panic THEN "exited"
                                      ELSE IF hit THEN "main" ELSE "retrieve"]
           /\ exit' = [exit EXCEPT ![p] = IF r.err = Panic THEN "panic" ELSE @]
           /\ files' = [files EXCEPT ![k] = IF r.err = None /\ ~hit THEN Absent ELSE @]
    /\ UNCHANGED <<now, dir, procs, flags, err, provided, saveErr, stdout, saved>>

(* Load, lines 99-102: the cache file is read and the result is returned    *)
(* if it has no error and is not expired.  A nil Credentials in the decoded *)
(* item ends the process in get.                                            *)
Get(p) ==
    /\ pc[p] = "get"
    /\ LET r == get(files[path(flags[p].profile)])
           hit == r.err = None /\ ~Expired(r.creds, now)
       IN  /\ getErr' = [getErr EXCEPT ![p] = IF r.err = None /\ ~hit THEN "expired" ELSE r.err]
           /\ calls' = [calls EXCEPT ![p].read = 1]
           /\ creds' = [creds EXCEPT ![p] = IF hit THEN r.creds ELSE @]
           /\ pc' = [pc EXCEPT ![p] = IF r.err = Panic THEN "exited"
                                      ELSE IF hit THEN "main" ELSE "retrieve"]
           /\ exit' = [exit EXCEPT ![p] = IF r.err = Panic THEN "panic" ELSE @]
    /\ UNCHANGED <<now, dir, files, procs, flags, err, provided, saveErr, stdout, saved>>

RetrieveIgnoresError(p) ==
    /\ pc[p] = "retrieve"
    /\ calls' = [calls EXCEPT ![p].retrieve = @ + 1]
    /\ \/ \E c \in UpstreamCredentials :
            /\ provided' = [provided EXCEPT ![p] = [called |-> TRUE, creds |-> c, err |-> None]]
            /\ creds' = [creds EXCEPT ![p] = c]
       \/ \E e \in UpstreamErrors :
            /\ provided' = [provided EXCEPT ![p] = [called |-> TRUE, creds |-> NoCredentials,
                                                    err |-> e]]
            /\ creds' = [creds EXCEPT ![p] = NoCredentials]
    /\ err' = [err EXCEPT ![p] = None]
    /\ pc' = [pc EXCEPT ![p] = IF loader(flags[p].noCache) = "Retrieve" THEN "main" ELSE "save"]
    /\ UNCHANGED <<now, dir, files, procs, flags, getErr, saveErr, stdout, exit, saved>>

RetrieveRetriesOnError(p) ==
    /\ pc[p] = "retrieve"
    /\ calls' = [calls EXCEPT ![p].retrieve = @ + 1]
    /\ \/ \E c \in UpstreamCredentials :
            /\ provided' = [provided EXCEPT ![p] = [called |-> TRUE, creds |-> c, err |-> None]]
            /\ creds' = [creds EXCEPT ![p] = c]
            /\ err' = [err EXCEPT ![p] = None]
            /\ pc' = [pc EXCEPT ![p] = IF loader(flags[p].noCache) = "Retrieve" THEN "main" ELSE "save"]
       \/ \E e \in UpstreamErrors :
            /\ provided' = [provided EXCEPT ![p] = [called |-> TRUE, creds |-> NoCredentials,
                                                    err |-> e]]
            /\ creds' = [creds EXCEPT ![p] = NoCredentials]
            /\ err' = [err EXCEPT ![p] = e]
            /\ pc' = [pc EXCEPT ![p] = IF calls[p].retrieve = 0 THEN "retrieve" ELSE "main"]
    /\ UNCHANGED <<now, dir, files, procs, flags, getErr, saveErr, stdout, exit, saved>>

RetrieveClearsCacheOnError(p) ==
    /\ pc[p] = "retrieve"
    /\ calls' = [calls EXCEPT ![p].retrieve = @ + 1]
    /\ \/ \E c \in UpstreamCredentials :
            /\ provided' = [provided EXCEPT ![p] = [called |-> TRUE, creds |-> c, err |-> None]]
            /\ creds' = [creds EXCEPT ![p] = c]
            /\ err' = [err EXCEPT ![p] = None]
            /\ pc' = [pc EXCEPT ![p] = IF loader(flags[p].noCache) = "Retrieve" THEN "main" ELSE "save"]
            /\ UNCHANGED files
       \/ \E e \in UpstreamErrors :
            /\ provided' = [provided EXCEPT ![p] = [called |-> TRUE, creds |-> NoCredentials,
                                                    err |-> e]]
            /\ creds' = [creds EXCEPT ![p] = NoCredentials]
            /\ err' = [err EXCEPT ![p] = e]
            /\ pc' = [pc EXCEPT ![p] = "main"]
            /\ files' = [files EXCEPT ![path(flags[p].profile)] =
                            IF @.exists /\ flags[p].forceRefresh
                            THEN [@ EXCEPT !.data = InvalidDoc, !.size = 0] ELSE @]
    /\ UNCHANGED <<now, dir, procs, flags, getErr, saveErr, stdout, exit, saved>>

(* c.provider.Retrieve(ctx), lines 106-109 (and the loader under -no-cache). *)
Retrieve(p) ==
    /\ pc[p] = "retrieve"
    /\ calls' = [calls EXCEPT ![p].retrieve = @ + 1]
    /\ \/ \E c \in UpstreamCredentials :
            /\ provided' = [provided EXCEPT ![p] = [called |-> TRUE, creds |-> c, err |-> None]]
            /\ creds' = [creds EXCEPT ![p] = c]
            /\ err' = [err EXCEPT ![p] = None]
            /\ pc' = [pc EXCEPT ![p] = IF loader(flags[p].noCache) = "Retrieve" THEN "main" ELSE "save"]
       \/ \E e \in UpstreamErrors :
            /\ provided' = [provided EXCEPT ![p] = [called |-> TRUE, creds |-> NoCredentials,
                                                    err |-> e]]
            /\ creds' = [creds EXCEPT ![p] = NoCredentials]
            /\ err' = [err EXCEPT ![p] = e]
            /\ pc' = [pc EXCEPT ![p] = "main"]
    /\ UNCHANGED <<now, dir, files, procs, flags, getErr, saveErr, stdout, exit, saved>>

(* os.Stat(dir) succeeds: the path is there, as a directory or not.        *)
dirExists(d) == d # "absent"

(* os.MkdirAll(dir, 0755): nothing to do when the path is a directory, an   *)
(* error when it is something else, and else the directory is made.         *)
MkdirAll(d) ==
    IF d = "file" THEN [dir |-> d, err |-> TRUE] ELSE [dir |-> "dir", err |-> FALSE]

makeCacheDirAlways(d) == MkdirAll(d)

(* save, lines 150-155: MkdirAll is called only when the path exists.       *)
makeCacheDir(d) == IF dirExists(d) THEN MkdirAll(d) ELSE [dir |-> d, err |-> FALSE]

(* save, lines 150-171 up to the opening of the file by os.WriteFile:       *)
(* MkdirAll is called only when the directory path exists, and fails when   *)
(* that path is not a directory; the file is then opened for writing,       *)
(* created if need be and truncated.                                        *)
SaveOpen(p, fault) ==
    /\ pc[p] = "save"
    /\ calls' = [calls EXCEPT ![p].save = @ + 1]
    /\ LET k == path(flags[p].profile)
           f == files[k]
           made == makeCacheDir(dir)
           \* pathExists(dir) holds and os.MkdirAll fails: the path is no directory
           mkdirErr == made.err
           \* os.OpenFile fails: no directory, no permission, or another fault
           openErr == made.dir # "dir" \/ (f.exists /\ ~f.writable) \/ fault
       IN  /\ dir' = made.dir
           /\ IF mkdirErr \/ openErr
              THEN /\ err' = [err EXCEPT ![p] = IF mkdirErr THEN ErrMkdir ELSE ErrWrite]
                   /\ saveErr' = [saveErr EXCEPT ![p] = IF mkdirErr THEN ErrMkdir ELSE ErrWrite]
                   /\ pc' = [pc EXCEPT ![p] = "main"]
                   /\ UNCHANGED <<files, saved>>
              ELSE /\ files' = [files EXCEPT ![k] =
                                  IF f.exists THEN [f EXCEPT !.data = InvalidDoc, !.size = 0]
                                  ELSE File(InvalidDoc, TRUE, TRUE)]
                   /\ saved' = IF saved.path = k THEN NoSave ELSE saved
                   /\ pc' = [pc EXCEPT ![p] = "write"]
                   /\ UNCHANGED <<err, saveErr>>
    /\ UNCHANGED <<now, procs, flags, creds, getErr, provided, stdout, exit>>

(* save, lines 171-175: os.WriteFile writes the encoded item at the start   *)
(* of the file it opened and closes the file; when the write fails the file *)
(* keeps what it held.                                                      *)
SaveWrite(p, fault) ==
    /\ pc[p] = "write"
    /\ calls' = [calls EXCEPT ![p].write = @ + 1]
    /\ LET k == path(flags[p].profile)
       IN  IF fault
           THEN /\ err' = [err EXCEPT ![p] = ErrWrite]
                /\ saveErr' = [saveErr EXCEPT ![p] = ErrWrite]
                /\ UNCHANGED <<files, saved>>
           ELSE /\ files' = [files EXCEPT ![k] = writeAtStart(@, MarshalItem(creds[p]))]
                /\ saved' = [valid |-> TRUE, path |-> k, creds |-> creds[p]]
                /\ saveErr' = [saveErr EXCEPT ![p] = None]
                /\ UNCHANGED err
    /\ pc' = [pc EXCEPT ![p] = "main"]
    /\ UNCHANGED <<now, dir, procs, flags, creds, getErr, provided, stdout, exit>>

MainPrintsDespiteError(p) ==
    /\ pc[p] = "main"
    /\ pc' = [pc EXCEPT ![p] = "exited"]
    /\ exit' = [exit EXCEPT ![p] = "ok"]
    /\ stdout' = [stdout EXCEPT ![p] = creds[p]]
    /\ UNCHANGED <<now, dir, files, procs, flags, creds, err, getErr, provided, saveErr, calls,
                   saved>>

(* main, lines 367-382: an error of the loader is fatal; otherwise the      *)
(* credentials are printed.                                                 *)
Main(p) ==
    /\ pc[p] = "main"
    /\ pc' = [pc EXCEPT ![p] = "exited"]
    /\ IF err[p] # None
       THEN /\ exit' = [exit EXCEPT ![p] = "fatal"]
            /\ UNCHANGED stdout
       ELSE /\ exit' = [exit EXCEPT ![p] = "ok"]
            /\ stdout' = [stdout EXCEPT ![p] = creds[p]]
    /\ UNCHANGED <<now, dir, files, procs, flags, creds, err, getErr, provided, saveErr, calls,
                   saved>>

(* Time passes.                                                             *)
Tick ==
    /\ now < MaxTime
    /\ now' = now + 1
    /\ UNCHANGED <<dir, files, procs, pc, flags, creds, err, getErr, provided, saveErr, calls, stdout,
                   exit, saved>>

Next ==
    \/ \E p \in procs, noCache \in BOOLEAN, forceRefresh \in BOOLEAN,
          profile \in Profiles :
         Start(p, noCache, forceRefresh, profile) /\ UNCHANGED <<keyVars, timeVars, histVars>>
    \/ \E p \in procs : Get(p) /\ UNCHANGED <<keyVars, timeVars, histVars>>
    \/ \E p \in procs : Retrieve(p) /\ UNCHANGED <<keyVars, timeVars, histVars>>
    \/ \E p \in procs, fault \in BOOLEAN : SaveOpen(p, fault) /\ UNCHANGED <<keyVars, timeVars, histVars>>
    \/ \E p \in procs, fault \in BOOLEAN : SaveWrite(p, fault) /\ UNCHANGED <<keyVars, timeVars, histVars>>
    \/ \E p \in procs : Main(p) /\ UNCHANGED <<keyVars, timeVars, histVars>>
    \/ Tick /\ UNCHANGED <<keyVars, timeVars, histVars>>

Spec == Init /\ [][Next]_vars

-----------------------------------------------------------------------------
(* Claims about Load, save and main *)

CacheFileOf(p) == files[path(flags[p].profile)]

(* Process p runs the cache read of Load in this step.                      *)
GetStep(p) == pc[p] = "get" /\ pc'[p] # "get"

(* What a cache file holds, read off its content.                           *)
StoredExpiry(f) ==
    IF f.data.Expiration = <<>> THEN [err |-> FALSE, time |-> ZeroTime]
    ELSE Parse(Trim(f.data.Expiration))

Decodable(f) ==
    f.exists /\ f.readable /\ f.data.kind = "item" /\ ~StoredExpiry(f).err

StoredCredentials(f) ==
    Credentials(f.data.AccessKeyId, f.data.SecretAccessKey, f.data.SessionToken,
                StoredExpiry(f).time, TRUE)

PresentValid(f, clock) == Decodable(f) /\ StoredExpiry(f).time.t > clock

(* Absent, unreadable, unparsable or expired.                               *)
MissEquivalent(f, clock) ==
    \/ ~f.exists
    \/ ~f.readable
    \/ f.data.kind = "invalid"
    \/ f.data.kind = "item" /\ StoredExpiry(f).err
    \/ Decodable(f) /\ StoredExpiry(f).time.t <= clock

UsesCache(p) == pc[p] # "idle" /\ ~flags[p].noCache

SameFourFields(a, b) ==
    /\ a.AccessKeyID = b.AccessKeyID
    /\ a.SecretAccessKey = b.SecretAccessKey
    /\ a.SessionToken = b.SessionToken
    /\ a.Expires.t = b.Expires.t

SaveErrors == {ErrMkdir, ErrWrite}

(* C1: after a Save(creds) that succeeded, a Load without forceRefresh at a *)
(* time before creds.expiration returns credentials with the four fields of *)
(* creds, and upstream is not invoked.                                      *)
C1_SaveLoadRoundTrip ==
    [][\A p \in procs :
         (/\ GetStep(p)
          /\ saved.valid
          /\ saved.path = path(flags[p].profile)
          /\ now < saved.creds.Expires.t)
         => /\ pc'[p] = "main"
            /\ err'[p] = None
            /\ SameFourFields(creds'[p], saved.creds)
            /\ ~provided'[p].called]_vars

(* C2: with the cache enabled and no forced refresh, upstream is called     *)
(* only if the cache file is absent, unreadable, unparsable or expired at   *)
(* that moment; a present, unexpired file is returned and upstream is not   *)
(* contacted.                                                               *)
C2_UpstreamOnlyOnMiss ==
    [][\A p \in procs :
         /\ GetStep(p) =>
              /\ pc'[p] = "retrieve" => MissEquivalent(CacheFileOf(p), now)
              /\ PresentValid(CacheFileOf(p), now) =>
                   /\ pc'[p] = "main"
                   /\ err'[p] = None
                   /\ creds'[p] = StoredCredentials(CacheFileOf(p))
                   /\ ~provided'[p].called
         /\ (pc'[p] \in {"main", "exited"} /\ getErr'[p] = None /\ calls'[p].read = 1)
              => ~provided'[p].called]_vars

C2_Witness ==
    \E p \in procs :
        /\ pc[p] = "main" /\ UsesCache(p) /\ ~flags[p].forceRefresh
        /\ calls[p].read = 1 /\ getErr[p] = None /\ ~provided[p].called
        /\ saved.valid /\ creds[p].AccessKeyID = "AKIA1"

(* C3 as stated: a forced refresh always invokes upstream and always leaves *)
(* the cache file rewritten with the newly obtained credentials.            *)
C3_ForcedAlwaysRewrites ==
    \A p \in procs :
        (UsesCache(p) /\ flags[p].forceRefresh /\ pc[p] = "main")
        => /\ provided[p].called
           /\ CacheFileOf(p).exists
           /\ CacheFileOf(p).data = MarshalItem(provided[p].creds)

(* C3 amended: a forced refresh never reads the cache and always invokes    *)
(* upstream, whatever the cache file holds; when upstream succeeds Save is  *)
(* attempted, and when Save succeeds too the cache file holds the encoding  *)
(* of the newly obtained credentials.                                       *)
C3_ForcedRefreshAmended ==
    \A p \in procs :
        (UsesCache(p) /\ flags[p].forceRefresh)
        => /\ calls[p].read = 0
           /\ pc[p] \in {"save", "write", "main", "exited"} => provided[p].called
           /\ (pc[p] \in {"main", "exited"} /\ provided[p].err = None) => calls[p].save = 1
           /\ (pc[p] = "main" /\ err[p] = None)
                => /\ CacheFileOf(p).exists
                   /\ CacheFileOf(p).data = MarshalItem(provided[p].creds)
                   /\ creds[p] = provided[p].creds

C3_Witness ==
    \E p \in procs :
        /\ UsesCache(p) /\ flags[p].forceRefresh /\ pc[p] = "main" /\ err[p] = None
        /\ calls[p].write = 1
        /\ CacheFileOf(p).data.AccessKeyId = "AKIA1"
        /\ PresentValid(CacheFileOf(p), now)

(* C4: under -no-cache upstream is called directly and the cache file and   *)
(* the cache directory are neither read nor written, whatever forceRefresh  *)
(* and the cache file are: the files are after the run what they were.      *)
C4_NoCacheBypassesStore ==
    [][\A p \in procs :
         (pc'[p] # "idle" /\ flags'[p].noCache)
         => /\ pc'[p] \notin {"get", "save", "write"}
            /\ calls'[p].read = 0 /\ calls'[p].save = 0 /\ calls'[p].write = 0
            /\ pc'[p] \in {"main", "exited"} => provided'[p].called
            /\ pc'[p] # pc[p] => (files' = files /\ dir' = dir)]_vars

C4_Witness ==
    \E p \in procs :
        /\ pc[p] = "exited" /\ flags[p].noCache /\ exit[p] = "ok"
        /\ provided[p].called
        /\ PresentValid(CacheFileOf(p), now)
        /\ stdout[p] # StoredCredentials(CacheFileOf(p))

(* What Load returns after a cache miss.                                    *)
C5_AfterMiss(p) ==
    (UsesCache(p) /\ ~flags[p].forceRefresh /\ pc[p] = "main" /\ getErr[p] # None)
    => /\ provided[p].called
       /\ err[p] \notin {ErrNotExist, ErrRead, ErrDecode}
       /\ (provided[p].err = None /\ saveErr[p] = None)
            => (err[p] = None /\ creds[p] = provided[p].creds)

(* C5: in a Load without forceRefresh an absent, unreadable, malformed or   *)
(* expired cache file leads to a fresh upstream retrieval and never to an   *)
(* error of Load: when upstream and Save then succeed, Load returns the     *)
(* fresh credentials and no error.                                          *)
C5_MissFallsThrough ==
    [][\A p \in procs :
         /\ (GetStep(p) /\ MissEquivalent(CacheFileOf(p), now))
              => (pc'[p] = "retrieve" /\ err'[p] = None)
         /\ C5_AfterMiss(p)']_vars

C5_Witness ==
    \E p \in procs :
        /\ UsesCache(p) /\ ~flags[p].forceRefresh /\ pc[p] = "main"
        /\ getErr[p] = ErrDecode /\ err[p] = None /\ creds[p] = provided[p].creds
        /\ provided[p].called

(* C6: a cached entry is reused only when its expiration is strictly after  *)
(* the current time; an entry that expires exactly now is expired and       *)
(* upstream is asked.                                                       *)
C6_ExpiryBoundary ==
    [][\A p \in procs :
         (GetStep(p) /\ Decodable(CacheFileOf(p)))
         => /\ pc'[p] = "main" <=> StoredExpiry(CacheFileOf(p)).time.t > now
            /\ StoredExpiry(CacheFileOf(p)).time.t = now
                 => (pc'[p] = "retrieve" /\ getErr'[p] = "expired")]_vars

C6_Witness ==
    \E p \in procs :
        /\ pc[p] = "retrieve" /\ getErr[p] = "expired"
        /\ Decodable(CacheFileOf(p))
        /\ StoredExpiry(CacheFileOf(p)).time.t = now

(* C7 as stated: when upstream succeeds and Save fails, the invocation      *)
(* still ends by delivering the fresh credentials.                          *)
C7_SaveFailureStillDelivers ==
    \A p \in procs :
        (pc[p] = "exited" /\ provided[p].called /\ provided[p].err = None
         /\ err[p] \in SaveErrors)
        => (exit[p] = "ok" /\ stdout[p] = provided[p].creds)

(* C7 amended: when upstream succeeds and Save fails, Load returns the      *)
(* fresh credentials together with the error of Save, and main treats that  *)
(* error as fatal: the invocation ends in failure and prints nothing.       *)
C7_SaveFailureIsFatal ==
    \A p \in procs :
        (provided[p].called /\ provided[p].err = None /\ err[p] \in SaveErrors)
        => /\ pc[p] \in {"main", "exited"}
           /\ creds[p] = provided[p].creds
           /\ pc[p] = "exited" => (exit[p] = "fatal" /\ stdout[p] = NoCredentials)

C7_Witness ==
    \E p \in procs :
        /\ pc[p] = "exited" /\ provided[p].called /\ provided[p].err = None
        /\ err[p] = ErrWrite /\ exit[p] = "fatal"

(* C8: when upstream fails, Load returns exactly the error of upstream,     *)
(* Save is not called, and the invocation ends in failure without printing  *)
(* credentials.                                                             *)
C8_UpstreamFailurePropagates ==
    \A p \in procs :
        (provided[p].called /\ provided[p].err # None)
        => /\ pc[p] \in {"main", "exited"}
           /\ err[p] = provided[p].err
           /\ calls[p].save = 0 /\ calls[p].write = 0
           /\ pc[p] = "exited" => (exit[p] = "fatal" /\ stdout[p] = NoCredentials)

C8_Witness ==
    \E p \in procs :
        /\ pc[p] = "exited" /\ provided[p].err = "mfa: no tty" /\ exit[p] = "fatal"
        /\ UsesCache(p)

-----------------------------------------------------------------------------
(* The cache key derivation on its own *)

KeyInputs ==
    [DurationSeconds : {0, 3600}, ExternalId : Strs(MaxStrLen), RoleArn : Strs(MaxStrLen),
     SerialNumber : Strs(1)]

InitKey == InitMachine({}) /\ dir = "dir" /\ (\A k \in Paths : files[k] = Absent)
           /\ keyIn \in KeyInputs /\ keyOut = NoKey /\ otherKey = NoOtherKey
           /\ IdleTime /\ IdleHistory

(* computableCacheKey.String on keyIn.                                      *)
DeriveKey ==
    /\ ~keyOut.done
    /\ keyOut' = [done |-> TRUE, blobStr |-> HashInput(keyIn), key |-> String(keyIn)]
    /\ UNCHANGED <<keyIn, otherKey, machineVars, timeVars, histVars>>

NextKey == DeriveKey

SpecKey == InitKey /\ [][NextKey]_vars

-----------------------------------------------------------------------------
(* The ExpireTime encoding on its own *)

TimeInputs == [t : 0..MaxInstant, off : Zones]

InitTime == InitMachine({}) /\ dir = "dir" /\ (\A k \in Paths : files[k] = Absent)
            /\ IdleKey /\ timeIn \in TimeInputs /\ timeText = <<>> /\ timeOut = NoTime
            /\ IdleHistory

(* ExpireTime(timeIn).MarshalJSON()                                         *)
MarshalTime ==
    /\ timeText = <<>>
    /\ timeText' = MarshalJSON(timeIn)
    /\ UNCHANGED <<timeIn, timeOut, machineVars, keyVars, histVars>>

(* ExpireTime.UnmarshalJSON(timeText)                                       *)
UnmarshalTime ==
    /\ timeText # <<>>
    /\ ~timeOut.done
    /\ timeOut' = [done |-> TRUE] @@ UnmarshalJSON(timeText)
    /\ UNCHANGED <<timeIn, timeText, machineVars, keyVars, histVars>>

NextTime == MarshalTime \/ UnmarshalTime

SpecTime == InitTime /\ [][NextTime]_vars

-----------------------------------------------------------------------------
(* Claims about the cache key derivation and the ExpireTime encoding *)

(* The reference serialization of C9: the JSON object of the non-default    *)
(* fields among DurationSeconds, ExternalId, RoleArn, SerialNumber, in that *)
(* order, with one space after the colon of each field and after the comma  *)
(* between two fields, and the values as encoding/json writes them.         *)
RefField(name, value) == <<Q, name, Q, ":", " ">> \o value

RECURSIVE RefJoin(_)
RefJoin(fs) ==
    IF fs = <<>> THEN <<>>
    ELSE IF Len(fs) = 1 THEN fs[1]
    ELSE fs[1] \o <<",", " ">> \o RefJoin(Tail(fs))

RefSerialization(v) ==
    <<"{">>
    \o RefJoin(
        (IF v.DurationSeconds # 0
         THEN <<RefField("DurationSeconds", <<ToString(v.DurationSeconds)>>)>> ELSE <<>>)
        \o (IF v.ExternalId # <<>>
            THEN <<RefField("ExternalId", encodeString(v.ExternalId))>> ELSE <<>>)
        \o (IF v.RoleArn # <<>>
            THEN <<RefField("RoleArn", encodeString(v.RoleArn))>> ELSE <<>>)
        \o (IF v.SerialNumber # <<>>
            THEN <<RefField("SerialNumber", encodeString(v.SerialNumber))>> ELSE <<>>))
    \o <<"}">>

(* C9: for every parameter value, the text that is hashed to form the cache *)
(* key is the reference serialization; the spacing rewrite alters no string *)
(* value.                                                                    *)
C9_HashInputIsReference ==
    keyOut.done => keyOut.blobStr = RefSerialization(keyIn)

(* C10: parsing the text that serializing a timestamp t produces yields the *)
(* instant of t, truncated to the whole second.                             *)
C10_ExpirationRoundTrip ==
    timeOut.done =>
        /\ ~timeOut.err
        /\ timeOut.time.t = (timeIn.t \div TicksPerSecond) * TicksPerSecond

-----------------------------------------------------------------------------
(* Further claims about Load, save and main *)

(* C11: whenever Load returns without error after having called upstream,   *)
(* save has completed without error and the cache file of the key decodes   *)
(* to exactly the credentials that Load returns.                            *)
C11_SavedBeforeReturn ==
    \A p \in procs :
        (UsesCache(p) /\ pc[p] = "main" /\ provided[p].called /\ err[p] = None)
        => /\ saveErr[p] = None
           /\ get(CacheFileOf(p)).err = None
           /\ SameFourFields(get(CacheFileOf(p)).creds, creds[p])

(* Process p runs save up to the opening of the cache file in this step.   *)
SaveStep(p) == pc[p] = "save" /\ pc'[p] # "save"

(* C12: save leaves the cache directory as it is: a directory that exists   *)
(* still exists after save, and a cache directory that is absent is never   *)
(* created; save then fails with a write error and no cache file is made.   *)
C12_SaveNeverCreatesRoot ==
    [][/\ dir = "absent" => dir' = "absent"
       /\ \A p \in procs :
            SaveStep(p)
            => /\ dir = "dir" => dir' = "dir"
               /\ dir = "absent"
                    => /\ pc'[p] = "main"
                       /\ saveErr'[p] = ErrWrite
                       /\ err'[p] = ErrWrite
                       /\ files' = files
                       /\ \A k \in Paths : ~files'[k].exists]_vars

C12_Witness ==
    \E p \in procs :
        /\ dir = "absent" /\ pc[p] = "main" /\ calls[p].save = 1
        /\ saveErr[p] = ErrWrite /\ provided[p].err = None
        /\ ~CacheFileOf(p).exists

(* C14: within one invocation, whatever the flags and the cache file are,  *)
(* the upstream provider is called at most once and save at most once,      *)
(* also when one of them fails: a failure ends the invocation.              *)
C14_NoRetries ==
    \A p \in procs :
        /\ calls[p].retrieve <= 1 /\ calls[p].save <= 1 /\ calls[p].write <= 1
        /\ (provided[p].called /\ provided[p].err # None)
             => (calls[p].retrieve = 1 /\ pc[p] \in {"main", "exited"})
        /\ saveErr[p] \in SaveErrors
             => (calls[p].save = 1 /\ calls[p].retrieve = 1 /\ pc[p] \in {"main", "exited"})
        /\ pc[p] \in {"save", "write"} => calls[p].retrieve = 1

C14_Witness ==
    \E p \in procs :
        /\ pc[p] = "exited" /\ exit[p] = "fatal" /\ saveErr[p] = ErrWrite
        /\ calls[p].read = 1 /\ calls[p].retrieve = 1 /\ calls[p].save = 1
        /\ calls[p].write = 1

(* C15: no step of any invocation removes a cache file: a file that is     *)
(* there, valid or expired, is still there after the step, and an expired   *)
(* entry keeps its content until a save opens the file to overwrite it.     *)
C15_NeverDeleted ==
    [][\A k \in Paths :
         files[k].exists
         => /\ files'[k].exists
            /\ (files'[k] # files[k])
                 => \E p \in procs :
                      /\ path(flags[p].profile) = k
                      /\ pc[p] \in {"save", "write"} /\ pc'[p] # pc[p]]_vars

C15_Witness ==
    \E p \in procs :
        /\ pc[p] = "exited" /\ calls[p].read = 1 /\ getErr[p] = "expired"
        /\ provided[p].err # None
        /\ Decodable(CacheFileOf(p))
        /\ StoredExpiry(CacheFileOf(p)).time.t < now

(* C17: whatever the cache file holds, the cache read of a Load without    *)
(* forceRefresh does not crash; it returns the stored credentials when the  *)
(* content decodes to an unexpired record, and goes on to upstream          *)
(* otherwise.                                                               *)
C17_LoadTotal ==
    [][\A p \in procs :
         GetStep(p)
         => /\ exit'[p] # "panic"
            /\ IF PresentValid(CacheFileOf(p), now)
               THEN pc'[p] = "main" /\ creds'[p] = StoredCredentials(CacheFileOf(p))
               ELSE pc'[p] = "retrieve"]_vars

-----------------------------------------------------------------------------
(* Two invocations that force a refresh of the same cache key at once *)

RaceProcs == {"p1", "p2"}

InitRace == InitMachine(RaceProcs) /\ dir = "dir" /\ IdleKey /\ IdleTime /\ IdleHistory

(* aws-cred-proc -force-refresh -profile cp-role, run once by each process. *)
StartRace(p) == pc[p] = "idle" /\ Start(p, FALSE, TRUE, "cp-role")

NextRace ==
    \/ \E p \in procs : StartRace(p) /\ UNCHANGED <<keyVars, timeVars, histVars>>
    \/ \E p \in procs : Retrieve(p) /\ UNCHANGED <<keyVars, timeVars, histVars>>
    \/ \E p \in procs, fault \in BOOLEAN : SaveOpen(p, fault) /\ UNCHANGED <<keyVars, timeVars, histVars>>
    \/ \E p \in procs, fault \in BOOLEAN : SaveWrite(p, fault) /\ UNCHANGED <<keyVars, timeVars, histVars>>
    \/ \E p \in procs : Main(p) /\ UNCHANGED <<keyVars, timeVars, histVars>>

SpecRace == InitRace /\ [][NextRace]_vars

(* C13: when two processes have run Load with forceRefresh for the same     *)
(* cache key and the save of both has succeeded, the cache file holds       *)
(* exactly the encoding of the credentials of the save that wrote last, and *)
(* each process returns the credentials it retrieved itself.                *)
C13_LastWriterWins ==
    (/\ procs = RaceProcs
     /\ \A p \in procs :
          /\ UsesCache(p) /\ flags[p].forceRefresh
          /\ pc[p] \in {"main", "exited"}
          /\ saveErr[p] = None)
    => /\ saved.valid
       /\ files[saved.path].data = MarshalItem(saved.creds)
       /\ \A p \in procs : err[p] = None /\ creds[p] = provided[p].creds

-----------------------------------------------------------------------------
(* Successive invocations, each with a record of the files it began with *)

(* The invocation of p that ends was a forced refresh that upstream failed. *)
FailedRefresh(p) ==
    /\ pc[p] = "exited" /\ UsesCache(p) /\ flags[p].forceRefresh
    /\ provided[p].called /\ provided[p].err # None

(* aws-cred-proc -profile cp-role, with or without -force-refresh.           *)
StartFrame(p, forceRefresh) ==
    /\ Start(p, FALSE, forceRefresh, "cp-role")
    /\ history' = [history EXCEPT ![p] =
                     [files |-> files,
                      previous |-> IF FailedRefresh(p)
                                   THEN [failedRefresh |-> TRUE, profile |-> flags[p].profile,
                                         files |-> history[p].files]
                                   ELSE NoPrevious]]

NextFrame ==
    \/ \E p \in procs, forceRefresh \in BOOLEAN :
         StartFrame(p, forceRefresh) /\ UNCHANGED <<keyVars, timeVars>>
    \/ \E p \in procs : Get(p) /\ UNCHANGED <<keyVars, timeVars, histVars>>
    \/ \E p \in procs : Retrieve(p) /\ UNCHANGED <<keyVars, timeVars, histVars>>
    \/ \E p \in procs, fault \in BOOLEAN : SaveOpen(p, fault) /\ UNCHANGED <<keyVars, timeVars, histVars>>
    \/ \E p \in procs, fault \in BOOLEAN : SaveWrite(p, fault) /\ UNCHANGED <<keyVars, timeVars, histVars>>
    \/ \E p \in procs : Main(p) /\ UNCHANGED <<keyVars, timeVars, histVars>>
    \/ Tick /\ UNCHANGED <<keyVars, timeVars, histVars>>

SpecFrame == Init /\ [][NextFrame]_vars

(* The cache file of p's key as it was before p's previous invocation.      *)
FileBeforePrevious(p) == history[p].previous.files[path(flags[p].profile)]

(* C16: when upstream fails, the cache files are exactly what they were     *)
(* when the invocation began; and when a forced refresh has failed so over  *)
(* a valid entry, the next Load without forceRefresh for that key returns   *)
(* that entry, while it is unexpired, without calling upstream.             *)
C16_UpstreamFailureLeavesFile ==
    [][\A p \in procs :
         /\ (provided'[p].called /\ provided'[p].err # None)
              => files' = history'[p].files
         /\ (/\ GetStep(p)
             /\ history[p].previous.failedRefresh
             /\ history[p].previous.profile = flags[p].profile
             /\ PresentValid(FileBeforePrevious(p), now))
            => /\ pc'[p] = "main"
               /\ err'[p] = None
               /\ ~provided'[p].called
               /\ creds'[p] = StoredCredentials(FileBeforePrevious(p))]_vars

C16_Witness ==
    \E p \in procs :
        /\ pc[p] = "main" /\ UsesCache(p) /\ ~flags[p].forceRefresh
        /\ history[p].previous.failedRefresh
        /\ history[p].previous.profile = flags[p].profile
        /\ calls[p].read = 1 /\ getErr[p] = None
        /\ creds[p] = StoredCredentials(FileBeforePrevious(p))

-----------------------------------------------------------------------------
(* The cache keys of two sets of assume-role parameters *)

PairInputs ==
    [DurationSeconds : {0, 3600}, ExternalId : Strs(MaxStrLen), RoleArn : {<<>>, <<"a">>},
     SerialNumber : {<<>>, <<"a">>}]

InitKeyPair ==
    /\ InitMachine({}) /\ dir = "dir" /\ (\A k \in Paths : files[k] = Absent)
    /\ keyIn \in PairInputs /\ keyOut = NoKey
    /\ \E other \in PairInputs : other # keyIn /\ otherKey = [in |-> other, out |-> NoKey]
    /\ IdleTime /\ IdleHistory

(* computableCacheKey.String on the second key.                             *)
DeriveOtherKey ==
    /\ keyOut.done
    /\ ~otherKey.out.done
    /\ otherKey' = [otherKey EXCEPT !.out = [done |-> TRUE, blobStr |-> HashInput(otherKey.in),
                                             key |-> String(otherKey.in)]]
    /\ UNCHANGED <<keyIn, keyOut, machineVars, timeVars, histVars>>

NextKeyPair == DeriveKey \/ DeriveOtherKey

SpecKeyPair == InitKeyPair /\ [][NextKeyPair]_vars

(* C18: two sets of parameters that differ in a field give different texts  *)
(* to hash and so different cache keys: a cache file written for one set is *)
(* not the cache file that Load reads for the other.                        *)
C18_KeysIsolateParameters ==
    (keyOut.done /\ otherKey.out.done /\ keyIn # otherKey.in)
    => /\ keyOut.blobStr # otherKey.out.blobStr
       /\ keyOut.key # otherKey.out.key

====
